---- MODULE Spec2Model ----
(***************************************************************************)
(* Model of the RAG toolkit: the ingestion pipeline                        *)
(* (rag_ingestion/ingest_documents.py) and the prompt renderer             *)
(* (chatbot/prompt_renderer.py).                                           *)
(*                                                                         *)
(* Text is modelled with strings, so that formatting (page markers, chunk  *)
(* identifiers, error messages) is computed as the code computes it.       *)
(* The third-party collaborators (PDF reader, text splitter, vector store, *)
(* template engine) are modelled by what the code consumes from them.      *)
(***************************************************************************)
EXTENDS Integers, Sequences, FiniteSets, TLC

VARIABLES
    \* ---- ingestion (ingest_documents.py) ----
    files,        \* the source directory: per PDF name, what is on disk
    rejectDup,    \* policy of the vector store for an add of an existing id
    store,        \* the persistent vector store: collection name -> collection
    status,       \* position of main(): "idle", "running", "done", "raised"
    pos,          \* index (1-based) of the mapping entry main() visits next
    run,          \* number of the current run of main()
    error,        \* the exception that left main(), "" if none
    visited,      \* history: <<run, entry>> pairs the loop of main() reached
    processed,    \* history: <<run, entry>> pairs process_pdf was called for
    chunked,      \* history: <<run, entry>> pairs the chunker was run for
    storeCalls,   \* history: calls made to the vector store
    batches,      \* history: the batches handed to collection.add
    outcome,      \* history: how each run of main() ended
    storeAtStart, \* history: the store when the current run started
    \* ---- text extraction on its own ----
    xPages,       \* the pages of the PDF given to extract_text_from_pdf
    xText,        \* what extract_text_from_pdf returned
    xDone,        \* whether extract_text_from_pdf has returned
    \* ---- prompt renderer (prompt_renderer.py) ----
    techniques,   \* the module-level mapping ANSWER_TECHNIQUES
    call,         \* the last renderer call: operation and arguments
    result,       \* what the last renderer call returned or raised
    pomlCalls,    \* number of invocations of the template engine
    lastPoml,     \* the engine invocations of the last renderer call
    nCalls        \* number of renderer calls made

ingestVars == <<files, rejectDup, store, status, pos, run, error, visited,
                processed, chunked, storeCalls, batches, outcome,
                storeAtStart>>
extractVars == <<xPages, xText, xDone>>
renderVars == <<techniques, call, result, pomlCalls, lastPoml, nCalls>>
vars == <<ingestVars, extractVars, renderVars>>

(***************************************************************************)
(* Bounds                                                                  *)
(***************************************************************************)
MaxRuns == 2        \* runs of main() in one behaviour
MaxPages == 4       \* pages of a PDF given to the extractor on its own
MaxResponses == 3   \* response records given to render_judge_prompt
MaxCalls == 2       \* renderer calls in one behaviour

(***************************************************************************)
(* Strings                                                                 *)
(***************************************************************************)
RECURSIVE Rep(_, _)
Rep(s, n) == IF n = 0 THEN "" ELSE s \o Rep(s, n - 1)

\* A code point that UTF-8 cannot encode (a lone surrogate), as PyPDF2 can
\* return for a malformed font map.
Surrogate == "?"

IsSpace(c) == c \in {" ", "\n", "\t", "\r"}

RECURSIVE LStrip(_)
LStrip(s) == IF Len(s) > 0 /\ IsSpace(Head(s)) THEN LStrip(Tail(s)) ELSE s

RECURSIVE RStrip(_)
RStrip(s) ==
    IF Len(s) > 0 /\ IsSpace(SubSeq(s, Len(s), Len(s)))
    THEN RStrip(SubSeq(s, 1, Len(s) - 1))
    ELSE s

\* str.strip()
Strip(s) == RStrip(LStrip(s))

\* page_text.encode("utf-8", errors="ignore").decode("utf-8"): code points
\* that cannot be encoded are dropped, everything else is kept.
RECURSIVE Clean(_)
Clean(s) ==
    IF \A k \in 1..Len(s) : SubSeq(s, k, k) # Surrogate THEN s
    ELSE LET k == CHOOSE j \in 1..Len(s) : SubSeq(s, j, j) = Surrogate
         IN  Clean(SubSeq(s, 1, k - 1)) \o Clean(SubSeq(s, k + 1, Len(s)))

\* format(i, "04d")
RECURSIVE ZeroPad(_, _)
ZeroPad(s, width) == IF Len(s) >= width THEN s ELSE ZeroPad("0" \o s, width)

\* os.path.basename
Basename(path) ==
    LET slashes == {k \in 1..Len(path) : SubSeq(path, k, k) = "/"}
    IN  IF slashes = {} THEN path
        ELSE LET last == CHOOSE k \in slashes : \A j \in slashes : j <= k
             IN  SubSeq(path, last + 1, Len(path))

(***************************************************************************)
(* Ingestion: configuration                                                *)
(***************************************************************************)
\* The mapping, in the insertion order main() iterates it in.
PDF_COLLECTION_MAP ==
    << [pdf |-> "Python.pdf", collection |-> "python_book"],
       [pdf |-> "Java.pdf", collection |-> "java_book"],
       [pdf |-> "Javascript.pdf", collection |-> "javascript_book"] >>

Entries == 1..Len(PDF_COLLECTION_MAP)
CollectionNames == {PDF_COLLECTION_MAP[e].collection : e \in Entries}

\* Path(__file__).parent.parent / "ingest_files"
source_dir == "part_2_skeleton/ingest_files"
PdfPath(pdf_name) == source_dir \o "/" \o pdf_name

\* RecursiveCharacterTextSplitter(chunk_size=500, chunk_overlap=50)
CHUNK_SIZE == 500
CHUNK_OVERLAP == 50

(***************************************************************************)
(* Ingestion: what can be on disk                                          *)
(***************************************************************************)
\* A page is modelled by what page.extract_text() returns for it; "" is a
\* page without extractable text.
LongText == "na" \o Surrogate \o "ve " \o Rep("lorem ipsum ", 41)

Documents ==
    { <<>>,                            \* a PDF without pages
      <<"">>,                          \* one page, no extractable text
      <<" " \o Surrogate>>,            \* one page, blank once cleaned
      <<"", "def f():">>,              \* text on the second page only
      <<LongText, "", "def f():">> }   \* more text than one chunk holds

Missing == [exists |-> FALSE, readable |-> FALSE, pages |-> <<>>]
Corrupt == [exists |-> TRUE, readable |-> FALSE, pages |-> <<>>]
Present(pages) == [exists |-> TRUE, readable |-> TRUE, pages |-> pages]
FileStates == {Missing, Corrupt} \cup {Present(d) : d \in Documents}

(***************************************************************************)
(* extract_text_from_pdf                                                   *)
(***************************************************************************)
\* Variant of PageSegment that prints the 0-based index of enumerate().
PageSegmentZeroBased(page_num, page_text) ==
    "\n--- Page " \o ToString(page_num) \o " ---\n" \o Clean(page_text)

\* The segment one page with text adds to the result (page_num is 0-based).
PageSegment(page_num, page_text) ==
    "\n--- Page " \o ToString(page_num + 1) \o " ---\n" \o Clean(page_text)

\* The loop over enumerate(reader.pages), from index page_num on.
RECURSIVE ExtractLoop(_, _, _)
ExtractLoop(pages, page_num, text) ==
    IF page_num >= Len(pages) THEN text
    ELSE LET page_text == pages[page_num + 1]
         IN  IF page_text # ""
             THEN ExtractLoop(pages, page_num + 1,
                              text \o PageSegment(page_num, page_text))
             ELSE ExtractLoop(pages, page_num + 1, text)

extract_text_from_pdf(pages) == ExtractLoop(pages, 0, "")

(***************************************************************************)
(* The text splitter (third party): chunks of at most chunk_size           *)
(* characters, consecutive chunks sharing chunk_overlap characters; no     *)
(* chunk for empty text.  Its choice of split points is not modelled.      *)
(***************************************************************************)
RECURSIVE Windows(_, _, _)
Windows(s, size, overlap) ==
    IF Len(s) = 0 THEN <<>>
    ELSE IF Len(s) <= size THEN <<s>>
    ELSE <<SubSeq(s, 1, size)>>
         \o Windows(SubSeq(s, size - overlap + 1, Len(s)), size, overlap)

split_text(text) == Windows(Strip(text), CHUNK_SIZE, CHUNK_OVERLAP)

(***************************************************************************)
(* The vector store (third party): named collections of records            *)
(***************************************************************************)
NoCollection == [exists |-> FALSE, description |-> "", records |-> <<>>]

IdsOf(records) == {records[k].id : k \in DOMAIN records}

\* client.get_or_create_collection: an existing collection is returned as
\* it is, a missing one is created empty.  (The "created" timestamp of the
\* metadata is left out: nothing reads it.)
get_or_create_collection(st, name, description) ==
    IF st[name].exists THEN st
    ELSE [st EXCEPT ![name] = [exists |-> TRUE,
                               description |-> description,
                               records |-> <<>>]]

RECURSIVE NewRecords(_, _, _)
NewRecords(batch, k, known) ==
    IF k > Len(batch.ids) THEN <<>>
    ELSE IF batch.ids[k] \in known THEN NewRecords(batch, k + 1, known)
    ELSE <<[id |-> batch.ids[k],
            document |-> batch.documents[k],
            metadata |-> batch.metadatas[k]]>>
         \o NewRecords(batch, k + 1, known \cup {batch.ids[k]})

\* collection.add: appends one record per id.  An id the collection already
\* holds is either rejected (the whole add raises, nothing is stored) or
\* ignored (the existing record is kept), by the policy of the store.
collection_add(records, batch, reject) ==
    IF reject /\ \E k \in DOMAIN batch.ids : batch.ids[k] \in IdsOf(records)
    THEN [raised |-> "DuplicateIDError", records |-> records]
    ELSE [raised |-> "",
          records |-> records \o NewRecords(batch, 1, IdsOf(records))]

(***************************************************************************)
(* process_pdf                                                             *)
(***************************************************************************)
\* Variant of ChunkId that numbers the chunks from 1.
ChunkIdFromOne(collection_name, i) ==
    collection_name \o "_chunk_" \o ZeroPad(ToString(i + 1), 4)

ChunkId(collection_name, i) ==
    collection_name \o "_chunk_" \o ZeroPad(ToString(i), 4)

ChunkMetadata(pdf_path, i) ==
    [source |-> Basename(pdf_path), chunk_index |-> i]

\* Variant of PrepareBatch whose ranges stop one chunk short.
PrepareBatchShort(pdf_path, collection_name, chunks) ==
    [name |-> collection_name,
     documents |-> chunks,
     ids |-> [k \in 1..(Len(chunks) - 1) |-> ChunkId(collection_name, k - 1)],
     metadatas |-> [k \in 1..(Len(chunks) - 1) |->
                       ChunkMetadata(pdf_path, k - 1)]]

\* ids, metadatas and documents as process_pdf prepares them
PrepareBatch(pdf_path, collection_name, chunks) ==
    [name |-> collection_name,
     documents |-> chunks,
     ids |-> [k \in 1..Len(chunks) |-> ChunkId(collection_name, k - 1)],
     metadatas |-> [k \in 1..Len(chunks) |-> ChunkMetadata(pdf_path, k - 1)]]

CollectionDescription(collection_name) ==
    "Code documentation collection for " \o collection_name

\* Variant of process_pdf that empties the collection before it adds (a
\* delete-before-insert step).
process_pdf_replacing(st, pdf_path, collection_name, file, fault, reject) ==
    LET text == extract_text_from_pdf(file.pages)
        chunks == split_text(text)
        getCall == [op |-> "get_or_create", name |-> collection_name]
        addCall == [op |-> "add", name |-> collection_name]
        st1 == get_or_create_collection(st, collection_name,
                   CollectionDescription(collection_name))
        batch == PrepareBatch(pdf_path, collection_name, chunks)
        added == collection_add(<<>>, batch, reject)
    IN  IF ~file.readable
        THEN [raised |-> "PdfReadError", store |-> st, chunker |-> FALSE,
              calls |-> {}, batch |-> {}]
        ELSE IF Strip(text) = ""
        THEN [raised |-> "", store |-> st, chunker |-> FALSE,
              calls |-> {}, batch |-> {}]
        ELSE IF fault = "get_or_create"
        THEN [raised |-> "StoreError", store |-> st, chunker |-> TRUE,
              calls |-> {getCall}, batch |-> {}]
        ELSE IF fault = "add"
        THEN [raised |-> "StoreError", store |-> st1, chunker |-> TRUE,
              calls |-> {getCall, addCall}, batch |-> {batch}]
        ELSE [raised |-> added.raised,
              store |-> [st1 EXCEPT ![collection_name].records =
                                        added.records],
              chunker |-> TRUE,
              calls |-> {getCall, addCall}, batch |-> {batch}]

\* Variant of process_pdf without the test for blank text: the chunker and
\* the store are reached with whatever was extracted.
process_pdf_unguarded(st, pdf_path, collection_name, file, fault, reject) ==
    LET text == extract_text_from_pdf(file.pages)
        chunks == split_text(text)
        getCall == [op |-> "get_or_create", name |-> collection_name]
        addCall == [op |-> "add", name |-> collection_name]
        st1 == get_or_create_collection(st, collection_name,
                   CollectionDescription(collection_name))
        batch == PrepareBatch(pdf_path, collection_name, chunks)
        added == collection_add(st1[collection_name].records, batch, reject)
    IN  IF ~file.readable
        THEN [raised |-> "PdfReadError", store |-> st, chunker |-> FALSE,
              calls |-> {}, batch |-> {}]
        ELSE IF fault = "get_or_create"
        THEN [raised |-> "StoreError", store |-> st, chunker |-> TRUE,
              calls |-> {getCall}, batch |-> {}]
        ELSE IF fault = "add"
        THEN [raised |-> "StoreError", store |-> st1, chunker |-> TRUE,
              calls |-> {getCall, addCall}, batch |-> {batch}]
        ELSE [raised |-> added.raised,
              store |-> [st1 EXCEPT ![collection_name].records =
                                        added.records],
              chunker |-> TRUE,
              calls |-> {getCall, addCall}, batch |-> {batch}]

\* The effect of one call process_pdf(pdf_path, collection_name) on store
\* st, for the file found at pdf_path.  fault names the store call that
\* fails in this call, if any.  raised is the exception that leaves
\* process_pdf ("" if it returns), chunker whether split_text was run,
\* calls the store calls made, batch the batches handed to collection.add.
process_pdf(st, pdf_path, collection_name, file, fault, reject) ==
    LET text == extract_text_from_pdf(file.pages)
        chunks == split_text(text)
        getCall == [op |-> "get_or_create", name |-> collection_name]
        addCall == [op |-> "add", name |-> collection_name]
        st1 == get_or_create_collection(st, collection_name,
                   CollectionDescription(collection_name))
        batch == PrepareBatch(pdf_path, collection_name, chunks)
        added == collection_add(st1[collection_name].records, batch, reject)
    IN  IF ~file.readable
        THEN [raised |-> "PdfReadError", store |-> st, chunker |-> FALSE,
              calls |-> {}, batch |-> {}]
        ELSE IF Strip(text) = ""
        THEN [raised |-> "", store |-> st, chunker |-> FALSE,
              calls |-> {}, batch |-> {}]
        ELSE IF fault = "get_or_create"
        THEN [raised |-> "StoreError", store |-> st, chunker |-> TRUE,
              calls |-> {getCall}, batch |-> {}]
        ELSE IF fault = "add"
        THEN [raised |-> "StoreError", store |-> st1, chunker |-> TRUE,
              calls |-> {getCall, addCall}, batch |-> {batch}]
        ELSE [raised |-> added.raised,
              store |-> [st1 EXCEPT ![collection_name].records =
                                        added.records],
              chunker |-> TRUE,
              calls |-> {getCall, addCall}, batch |-> {batch}]

(***************************************************************************)
(* main                                                                    *)
(***************************************************************************)
Faults == {"none", "get_or_create", "add"}

InitIngest ==
    /\ files \in [Entries -> FileStates]
    /\ rejectDup \in BOOLEAN
    /\ store = [n \in CollectionNames |-> NoCollection]
    /\ status = "idle"
    /\ pos = 1
    /\ run = 0
    /\ error = ""
    /\ visited = {}
    /\ processed = {}
    /\ chunked = {}
    /\ storeCalls = {}
    /\ batches = {}
    /\ outcome = [r \in 1..MaxRuns |-> ""]
    /\ storeAtStart = [n \in CollectionNames |-> NoCollection]

\* main() is called (the script is run).
StartMain ==
    /\ status # "running"
    /\ run < MaxRuns
    /\ run' = run + 1
    /\ status' = "running"
    /\ pos' = 1
    /\ error' = ""
    /\ storeAtStart' = store
    /\ UNCHANGED <<files, rejectDup, store, visited, processed, chunked,
                   storeCalls, batches, outcome>>

\* Variant of SkipMissing without the exists() test: the PDF reader is given
\* the missing path and its exception leaves main().
SkipMissingUnchecked ==
    /\ status = "running"
    /\ pos \in Entries
    /\ ~files[pos].exists
    /\ visited' = visited \cup {<<run, pos>>}
    /\ processed' = processed \cup {<<run, pos>>}
    /\ status' = "raised"
    /\ error' = "FileNotFoundError"
    /\ outcome' = [outcome EXCEPT ![run] = "raised"]
    /\ UNCHANGED <<files, rejectDup, store, pos, run, chunked, storeCalls,
                   batches, storeAtStart>>

\* One iteration of the loop of main() whose PDF is not there: the warning
\* and the continue.
SkipMissing ==
    /\ status = "running"
    /\ pos \in Entries
    /\ ~files[pos].exists
    /\ visited' = visited \cup {<<run, pos>>}
    /\ pos' = pos + 1
    /\ UNCHANGED <<files, rejectDup, store, status, run, error, processed,
                   chunked, storeCalls, batches, outcome, storeAtStart>>

\* Variant of ProcessEntry with the call of process_pdf wrapped in a
\* try/except that records the error and goes on with the next entry.
ProcessEntryIsolated(fault) ==
    /\ status = "running"
    /\ pos \in Entries
    /\ files[pos].exists
    /\ LET entry == PDF_COLLECTION_MAP[pos]
           r == process_pdf(store, PdfPath(entry.pdf), entry.collection,
                            files[pos], fault, rejectDup)
       IN  /\ visited' = visited \cup {<<run, pos>>}
           /\ processed' = processed \cup {<<run, pos>>}
           /\ chunked' = IF r.chunker THEN chunked \cup {<<run, pos>>}
                         ELSE chunked
           /\ storeCalls' = storeCalls \cup
                  {[run |-> run, entry |-> pos, op |-> c.op, name |-> c.name]
                      : c \in r.calls}
           /\ batches' = batches \cup
                  {[run |-> run, entry |-> pos, name |-> b.name,
                    documents |-> b.documents, ids |-> b.ids,
                    metadatas |-> b.metadatas] : b \in r.batch}
           /\ store' = r.store
           /\ error' = IF r.raised = "" THEN error ELSE r.raised
           /\ pos' = pos + 1
           /\ UNCHANGED <<status, outcome>>
    /\ UNCHANGED <<files, rejectDup, run, storeAtStart>>

\* One iteration of the loop of main() whose PDF is there: the call of
\* process_pdf, and its exception leaving main() if it raises.
ProcessEntry(fault) ==
    /\ status = "running"
    /\ pos \in Entries
    /\ files[pos].exists
    /\ LET entry == PDF_COLLECTION_MAP[pos]
           r == process_pdf(store, PdfPath(entry.pdf), entry.collection,
                            files[pos], fault, rejectDup)
       IN  /\ visited' = visited \cup {<<run, pos>>}
           /\ processed' = processed \cup {<<run, pos>>}
           /\ chunked' = IF r.chunker THEN chunked \cup {<<run, pos>>}
                         ELSE chunked
           /\ storeCalls' = storeCalls \cup
                  {[run |-> run, entry |-> pos, op |-> c.op, name |-> c.name]
                      : c \in r.calls}
           /\ batches' = batches \cup
                  {[run |-> run, entry |-> pos, name |-> b.name,
                    documents |-> b.documents, ids |-> b.ids,
                    metadatas |-> b.metadatas] : b \in r.batch}
           /\ store' = r.store
           /\ IF r.raised = ""
              THEN /\ pos' = pos + 1
                   /\ UNCHANGED <<status, error, outcome>>
              ELSE /\ status' = "raised"
                   /\ error' = r.raised
                   /\ outcome' = [outcome EXCEPT ![run] = "raised"]
                   /\ pos' = pos
    /\ UNCHANGED <<files, rejectDup, run, storeAtStart>>

\* The loop of main() is over: the closing banner, and main() returns.
MainReturn ==
    /\ status = "running"
    /\ pos = Len(PDF_COLLECTION_MAP) + 1
    /\ status' = "done"
    /\ outcome' = [outcome EXCEPT ![run] = "done"]
    /\ UNCHANGED <<files, rejectDup, store, pos, run, error, visited,
                   processed, chunked, storeCalls, batches, storeAtStart>>

(***************************************************************************)
(* Text extraction on its own: extract_text_from_pdf over every PDF of up  *)
(* to MaxPages pages.                                                      *)
(***************************************************************************)
PageTexts == {"", " " \o Surrogate, "def f():", "caf" \o Surrogate \o "e"}

PageLists == UNION {[1..n -> PageTexts] : n \in 0..MaxPages}

InitExtract ==
    /\ xPages \in PageLists
    /\ xText = ""
    /\ xDone = FALSE

ExtractText ==
    /\ ~xDone
    /\ xText' = extract_text_from_pdf(xPages)
    /\ xDone' = TRUE
    /\ UNCHANGED xPages

(***************************************************************************)
(* Prompt renderer                                                         *)
(***************************************************************************)
ROUTING_POML == "prompts/route.poml"
ANSWER_POML == "prompts/answer.poml"
JUDGE_POML == "prompts/judge.poml"

\* The dict, in insertion order.
ANSWER_TECHNIQUES ==
    << [key |-> "zero_shot", label |-> "Zero-Shot"],
       [key |-> "few_shot", label |-> "Few-Shot"],
       [key |-> "cot", label |-> "Chain of Thought"],
       [key |-> "advanced", label |-> "Constrained-Guided Generation"] >>

\* list(d.keys())
KeyList(d) == [k \in 1..Len(d) |-> d[k].key]
KeySet(d) == {d[k].key : k \in 1..Len(d)}

\* str() of a list of strings
RECURSIVE ReprItems(_, _)
ReprItems(list, k) ==
    IF k > Len(list) THEN ""
    ELSE (IF k > 1 THEN ", " ELSE "") \o "'" \o list[k] \o "'"
         \o ReprItems(list, k + 1)

ListRepr(list) == "[" \o ReprItems(list, 1) \o "]"

\* dict.get(key, default)
Get(d, key, default) == IF key \in DOMAIN d THEN d[key] ELSE default

\* Truth value of dict.get(key): a missing key gives None, and None and ""
\* are both false.
Truthy(d, key) == key \in DOMAIN d /\ d[key] # ""

\* The call of the template engine, and what the function returns from it:
\* the content of the first rendered message, or the engine's exception.
Poml(template, context, engineOk) ==
    [poml |-> <<[template |-> template, context |-> context]>>,
     result |-> IF engineOk
                THEN [kind |-> "returned",
                      value |-> [content_of |-> template, with |-> context]]
                ELSE [kind |-> "raised", type |-> "TemplateError",
                      message |-> template]]

render_routing_prompt(question, engineOk) ==
    Poml(ROUTING_POML, [question |-> question], engineOk)

InvalidTechniqueMessage(technique, d) ==
    "Invalid technique: " \o technique \o ". Must be one of "
        \o ListRepr(KeyList(d))

\* Variant of render_answer_prompt that validates after rendering.
render_answer_late(d, technique, question, context, language, conv, ok) ==
    LET rendered == Poml(ANSWER_POML,
                         [technique |-> technique,
                          question |-> question,
                          context |-> context,
                          language |-> language,
                          conversation_context |-> conv],
                         ok)
    IN  IF technique \notin KeySet(d) /\ ok
        THEN [poml |-> rendered.poml,
              result |-> [kind |-> "raised", type |-> "ValueError",
                          message |-> InvalidTechniqueMessage(technique, d)]]
        ELSE rendered

render_answer_prompt(d, technique, question, context, language, conv, ok) ==
    IF technique \notin KeySet(d)
    THEN [poml |-> <<>>,
          result |-> [kind |-> "raised", type |-> "ValueError",
                      message |-> InvalidTechniqueMessage(technique, d)]]
    ELSE Poml(ANSWER_POML,
              [technique |-> technique,
               question |-> question,
               context |-> context,
               language |-> language,
               conversation_context |-> conv],
              ok)

\* Variant of ResponseLabel that prefers the technique name.
ResponseLabelTechniqueFirst(item, idx) ==
    IF Truthy(item, "technique_name") THEN item["technique_name"]
    ELSE IF Truthy(item, "model_name") THEN item["model_name"]
    ELSE "Item " \o ToString(idx)

ResponseLabel(item, idx) ==
    IF Truthy(item, "model_name") THEN item["model_name"]
    ELSE IF Truthy(item, "technique_name") THEN item["technique_name"]
    ELSE "Item " \o ToString(idx)

\* The loop over enumerate(responses, 1)
ResponsesList(responses) ==
    [idx \in 1..Len(responses) |->
        [label |-> ResponseLabel(responses[idx], idx),
         response |-> Get(responses[idx], "response", "")]]

render_judge_prompt(question, responses, comparison_type, engineOk) ==
    Poml(JUDGE_POML,
         [question |-> question,
          comparison_type |-> comparison_type,
          responses_list |-> ResponsesList(responses)],
         engineOk)

\* The caller's list once render_judge_prompt is over: the function reads
\* the records with get() and appends to a list of its own.
ResponsesAfterJudge(responses) == responses

\* Variant of get_answer_techniques that returns the keys only, each as its
\* own label.
get_answer_techniques_keys(d) ==
    [kind |-> "returned",
     value |-> [k \in 1..Len(d) |-> [key |-> d[k].key, label |-> d[k].key]]]

get_answer_techniques(d) == [kind |-> "returned", value |-> d]

\* ---- the callers' inputs ----
TechniqueArgs ==
    {"zero_shot", "few_shot", "cot", "advanced", "invalid_tech", "Zero-Shot"}
Questions == {"q"}
ConversationArgs == {"", "earlier turns"}

\* Response records: every field may be missing, a name may be empty.
ResponseItems ==
    { [model_name |-> "gpt"],
      [technique_name |-> "cot"],
      [k \in {} |-> ""],
      [model_name |-> "", response |-> "an answer"],
      [model_name |-> "gpt", technique_name |-> "cot",
       response |-> "an answer"] }

ResponseLists == UNION {[1..n -> ResponseItems] : n \in 0..MaxResponses}

InitRender ==
    /\ techniques = ANSWER_TECHNIQUES
    /\ call = [op |-> "none"]
    /\ result = [kind |-> "none"]
    /\ pomlCalls = 0
    /\ lastPoml = <<>>
    /\ nCalls = 0

\* What every renderer call does with the outcome r of the function.
Called(c, r) ==
    /\ nCalls < MaxCalls
    /\ nCalls' = nCalls + 1
    /\ call' = c
    /\ result' = r.result
    /\ pomlCalls' = pomlCalls + Len(r.poml)
    /\ lastPoml' = r.poml
    /\ UNCHANGED techniques

RenderRouting ==
    \E question \in Questions, engineOk \in BOOLEAN :
        Called([op |-> "render_routing_prompt", question |-> question],
               render_routing_prompt(question, engineOk))

\* given: whether the caller passes conversation_context or leaves it to
\* its default, the empty string.
RenderAnswer ==
    \E technique \in TechniqueArgs, question \in Questions,
       given \in BOOLEAN, conv \in ConversationArgs, engineOk \in BOOLEAN :
        /\ ~given => conv = ""
        /\ Called([op |-> "render_answer_prompt", technique |-> technique,
                   question |-> question, context |-> "ctx",
                   language |-> "en", given |-> given, conv |-> conv],
                  render_answer_prompt(techniques, technique, question,
                      "ctx", "en", IF given THEN conv ELSE "", engineOk))

RenderJudge ==
    \E question \in Questions, responses \in ResponseLists,
       engineOk \in BOOLEAN :
        Called([op |-> "render_judge_prompt", question |-> question,
                responses |-> responses,
                responsesAfter |-> ResponsesAfterJudge(responses),
                comparison_type |-> "accuracy"],
               render_judge_prompt(question, responses, "accuracy", engineOk))

GetAnswerTechniques ==
    Called([op |-> "get_answer_techniques"],
           [poml |-> <<>>, result |-> get_answer_techniques(techniques)])

(***************************************************************************)
(* Specifications: one per component, the others standing still            *)
(***************************************************************************)
IngestIdle ==
    /\ files = [e \in Entries |-> Missing]
    /\ rejectDup = TRUE
    /\ store = [n \in CollectionNames |-> NoCollection]
    /\ status = "idle"
    /\ pos = 1
    /\ run = 0
    /\ error = ""
    /\ visited = {}
    /\ processed = {}
    /\ chunked = {}
    /\ storeCalls = {}
    /\ batches = {}
    /\ outcome = [r \in 1..MaxRuns |-> ""]
    /\ storeAtStart = [n \in CollectionNames |-> NoCollection]

ExtractIdle == xPages = <<>> /\ xText = "" /\ xDone = FALSE

RenderIdle ==
    /\ techniques = ANSWER_TECHNIQUES
    /\ call = [op |-> "none"]
    /\ result = [kind |-> "none"]
    /\ pomlCalls = 0
    /\ lastPoml = <<>>
    /\ nCalls = 0

NextIngest ==
    \/ StartMain /\ UNCHANGED <<extractVars, renderVars>>
    \/ SkipMissing /\ UNCHANGED <<extractVars, renderVars>>
    \/ (\E fault \in Faults : ProcessEntry(fault))
           /\ UNCHANGED <<extractVars, renderVars>>
    \/ MainReturn /\ UNCHANGED <<extractVars, renderVars>>

InitIngestion == InitIngest /\ ExtractIdle /\ RenderIdle

SpecIngest == InitIngestion /\ [][NextIngest]_vars

NextExtract == ExtractText /\ UNCHANGED <<ingestVars, renderVars>>

InitExtraction == IngestIdle /\ InitExtract /\ RenderIdle

SpecExtract == InitExtraction /\ [][NextExtract]_vars

NextRender ==
    \/ RenderRouting /\ UNCHANGED <<ingestVars, extractVars>>
    \/ RenderAnswer /\ UNCHANGED <<ingestVars, extractVars>>
    \/ RenderJudge /\ UNCHANGED <<ingestVars, extractVars>>
    \/ GetAnswerTechniques /\ UNCHANGED <<ingestVars, extractVars>>

InitRendering == IngestIdle /\ ExtractIdle /\ InitRender

SpecRender == InitRendering /\ [][NextRender]_vars

(***************************************************************************)
(* Properties of ingestion (SpecIngest)                                    *)
(***************************************************************************)
CollectionOf(e) == PDF_COLLECTION_MAP[e].collection
EntryText(e) == extract_text_from_pdf(files[e].pages)
IsBlankEntry(e) ==
    files[e].exists /\ files[e].readable /\ Strip(EntryText(e)) = ""

\* C1: an entry of PDF_COLLECTION_MAP whose PDF is not in the source
\* directory never makes main() raise, does not stop the loop (the loop is
\* past it once it was visited, and a run that returned visited every
\* entry), process_pdf is never called for it, and its collection is never
\* got-or-created nor added to.
C1_MissingFileSkipped ==
    /\ \A e \in Entries :
          ~files[e].exists =>
             /\ \A r \in 1..MaxRuns : <<r, e>> \notin processed
             /\ \A c \in storeCalls : c.name # CollectionOf(e)
             /\ ~store[CollectionOf(e)].exists
             /\ <<run, e>> \in visited => pos > e
             /\ ~(status = "raised" /\ pos = e)
    /\ status = "raised" => files[pos].exists
    /\ status = "done" => \A e \in Entries : <<run, e>> \in visited

\* A missing entry was skipped, a later entry was processed and main()
\* returned.
C1_Witness ==
    \E e \in Entries, e2 \in Entries :
        /\ ~files[e].exists
        /\ e2 > e
        /\ <<run, e>> \in visited
        /\ <<run, e2>> \in processed
        /\ store[CollectionOf(e2)].exists
        /\ status = "done"

\* C2 as stated: after a document failed with a propagated error, every
\* later entry whose file is present is still processed by the same run.
C2_PerDocumentIsolation ==
    \A e \in Entries, e2 \in Entries :
        (error # "" /\ <<run, e>> \in processed /\ pos = e
            /\ e2 > e /\ files[e2].exists)
        => <<run, e2>> \in processed

\* C2, amended: an error propagated out of process_pdf leaves main() and
\* ends the run at that entry; the entries before it were visited, no
\* later entry is visited or processed by that run.
C2_ErrorEndsRun ==
    error # "" =>
        /\ status = "raised"
        /\ outcome[run] = "raised"
        /\ pos \in Entries
        /\ <<run, pos>> \in processed
        /\ \A e \in Entries :
              /\ e < pos => <<run, e>> \in visited
              /\ e > pos => <<run, e>> \notin visited
              /\ e > pos => <<run, e>> \notin processed

\* A document failed while a later entry with a readable PDF was waiting.
C2_Witness ==
    /\ status = "raised"
    /\ pos < Len(PDF_COLLECTION_MAP)
    /\ files[pos + 1].exists
    /\ files[pos + 1].readable
    /\ <<run, pos + 1>> \notin processed

\* C9: a present PDF whose extracted text is empty or only whitespace is
\* skipped without raising: the chunker is not run for it, no call goes to
\* the vector store for it, its collection is neither created nor added
\* to, and main() goes on to the next entry.
C9_BlankTextSkipped ==
    \A e \in Entries :
        ((\E r \in 1..MaxRuns : <<r, e>> \in processed) /\ IsBlankEntry(e)) =>
            /\ \A r \in 1..MaxRuns :
                  /\ <<r, e>> \notin chunked
                  /\ \A c \in storeCalls : ~(c.run = r /\ c.entry = e)
                  /\ \A b \in batches : ~(b.run = r /\ b.entry = e)
            /\ ~store[CollectionOf(e)].exists
            /\ <<run, e>> \in processed => pos > e
            /\ ~(status = "raised" /\ pos = e)

\* process_pdf was called for a PDF with blank text and the loop went on to
\* the next entry.
C9_Witness ==
    \E e \in Entries :
        /\ IsBlankEntry(e)
        /\ Len(files[e].pages) > 0
        /\ <<run, e>> \in processed
        /\ e < Len(PDF_COLLECTION_MAP)
        /\ <<run, e + 1>> \in visited

\* The chunks the chunker produces from the text extracted from entry e.
EntryChunks(e) == split_text(EntryText(e))

\* C3: in the first run of main(), on an initially empty store, once
\* process_pdf has returned for an entry whose file is present and whose
\* extracted text is not blank, the entry's collection exists, holds at
\* least one record, and holds as many records as the chunker produced
\* chunks from the extracted text.
C3_RecordsMatchChunks ==
    \A e \in Entries :
        (/\ run = 1
         /\ <<1, e>> \in processed
         /\ pos > e
         /\ files[e].readable
         /\ Strip(EntryText(e)) # "")
        => /\ store[CollectionOf(e)].exists
           /\ Len(store[CollectionOf(e)].records) >= 1
           /\ Len(store[CollectionOf(e)].records) = Len(EntryChunks(e))

\* The first run returned and left a collection of several records.
C3_Witness ==
    /\ run = 1
    /\ status = "done"
    /\ \E e \in Entries :
          /\ <<1, e>> \in processed
          /\ Len(store[CollectionOf(e)].records) >= 2

Digits == {"0", "1", "2", "3", "4", "5", "6", "7", "8", "9"}
IsDigits(s) == \A k \in 1..Len(s) : SubSeq(s, k, k) \in Digits
DigitValue(c) == CHOOSE d \in 0..9 : ToString(d) = c

RECURSIVE ParseNat(_)
ParseNat(s) ==
    IF Len(s) = 0 THEN 0
    ELSE ParseNat(SubSeq(s, 1, Len(s) - 1)) * 10
         + DigitValue(SubSeq(s, Len(s), Len(s)))

\* id is "{name}_chunk_{i}" with i written in decimal, zero-padded to at
\* least four digits.
IsChunkId(id, name, i) ==
    LET prefix == name \o "_chunk_"
        number == SubSeq(id, Len(prefix) + 1, Len(id))
    IN  /\ Len(id) >= Len(prefix) + 4
        /\ SubSeq(id, 1, Len(prefix)) = prefix
        /\ IsDigits(number)
        /\ ParseNat(number) = i
        /\ Len(number) > 4 => Head(number) # "0"

\* C4: in every batch handed to collection.add, documents, ids and
\* metadatas are as long as the chunk list; at every 0-based position i the
\* id is "{collection_name}_chunk_{i:04d}", the metadata is {source:
\* basename of the PDF, chunk_index: i} and the document is the i-th chunk;
\* the ids of a batch are pairwise distinct, and two batches for the same
\* collection carry the same id at the same position.
C4_BatchShape ==
    /\ \A e \in Entries :
          LET chunks == EntryChunks(e)
              n == Len(chunks)
          IN  \A b \in batches :
                  b.entry = e =>
                      /\ b.name = CollectionOf(e)
                      /\ Len(b.documents) = n
                      /\ Len(b.ids) = n
                      /\ Len(b.metadatas) = n
                      /\ \A k \in 1..n :
                            /\ IsChunkId(b.ids[k], b.name, k - 1)
                            /\ b.metadatas[k] =
                                  [source |-> PDF_COLLECTION_MAP[e].pdf,
                                   chunk_index |-> k - 1]
                            /\ b.documents[k] = chunks[k]
                      /\ \A j \in 1..n, k \in 1..n :
                            j # k => b.ids[j] # b.ids[k]
    /\ \A b1 \in batches, b2 \in batches :
          b1.name = b2.name =>
              \A k \in DOMAIN b1.ids \cap DOMAIN b2.ids : b1.ids[k] = b2.ids[k]

\* A batch of several chunks was handed to collection.add in two runs.
C4_Witness ==
    \E b1 \in batches, b2 \in batches :
        /\ b1.run # b2.run
        /\ b1.name = b2.name
        /\ Len(b1.ids) >= 2
        /\ b1.ids[2] = b1.name \o "_chunk_0001"

IsPrefix(s, t) == Len(s) <= Len(t) /\ SubSeq(t, 1, Len(s)) = s

\* C5: a second run of main() over the same files, after a first run that
\* returned, hands to collection.add only batches with exactly the ids the
\* first run submitted to that collection, and removes no record; with a
\* store that rejects an add of an existing id, and records stored by the
\* first run, the second run ends with an error raised out of main() and
\* the store is as the first run left it.
C5_RerunNotIdempotent ==
    (run = 2 /\ outcome[1] = "done") =>
        /\ \A b \in batches :
              b.run = 2 =>
                  \E b1 \in batches :
                      b1.run = 1 /\ b1.name = b.name /\ b1.ids = b.ids
        /\ \A n \in CollectionNames :
              /\ storeAtStart[n].exists => store[n].exists
              /\ IsPrefix(storeAtStart[n].records, store[n].records)
        /\ (/\ rejectDup
            /\ status \in {"done", "raised"}
            /\ \E n \in CollectionNames : storeAtStart[n].records # <<>>)
           => /\ status = "raised"
              /\ error \in {"DuplicateIDError", "StoreError"}
              /\ store = storeAtStart

\* The second run was refused by the store and the records of the first run
\* are still there.
C5_Witness ==
    /\ run = 2
    /\ outcome[1] = "done"
    /\ rejectDup
    /\ status = "raised"
    /\ error = "DuplicateIDError"
    /\ \E n \in CollectionNames : Len(store[n].records) >= 2
    /\ \E b \in batches : b.run = 2

(***************************************************************************)
(* Properties of the prompt renderer (SpecRender)                          *)
(***************************************************************************)
FourKeys == {"zero_shot", "few_shot", "cot", "advanced"}

\* C6: render_answer_prompt with a technique outside the four keys raises
\* ValueError, the message naming the value and listing exactly the four
\* keys, and the template engine is not invoked; with one of the four keys
\* it does not raise ValueError and renders answer.poml with the context
\* {technique, question, context, language, conversation_context},
\* conversation_context being "" when the caller leaves it out.
C6_TechniqueValidated ==
    call.op = "render_answer_prompt" =>
        IF call.technique \notin FourKeys
        THEN /\ result.kind = "raised"
             /\ result.type = "ValueError"
             /\ result.message =
                   "Invalid technique: " \o call.technique
                   \o ". Must be one of "
                   \o "['zero_shot', 'few_shot', 'cot', 'advanced']"
             /\ lastPoml = <<>>
        ELSE /\ ~(result.kind = "raised" /\ result.type = "ValueError")
             /\ lastPoml =
                   << [template |-> "prompts/answer.poml",
                       context |->
                          [technique |-> call.technique,
                           question |-> call.question,
                           context |-> call.context,
                           language |-> call.language,
                           conversation_context |->
                              IF call.given THEN call.conv ELSE ""]] >>

\* render_answer_prompt("invalid_tech", ...) raised after an earlier call
\* had rendered.
C6_Witness ==
    /\ call.op = "render_answer_prompt"
    /\ call.technique = "invalid_tech"
    /\ result.kind = "raised"
    /\ pomlCalls >= 1

HasName(item, key) == key \in DOMAIN item /\ item[key] # ""

\* C7: responses_list has the length and order of the input list, which is
\* left as it was; entry n is labelled with the record's model name if it
\* has one, else its technique name if it has one, else "Item n", and
\* carries the record's response text, "" if the record has none.
C7_JudgeLabels ==
    call.op = "render_judge_prompt" =>
        LET in == call.responses
            out == lastPoml[1].context.responses_list
        IN  /\ Len(lastPoml) = 1
            /\ lastPoml[1].template = "prompts/judge.poml"
            /\ call.responsesAfter = in
            /\ Len(out) = Len(in)
            /\ \A n \in 1..Len(in) :
                  /\ HasName(in[n], "model_name")
                        => out[n].label = in[n].model_name
                  /\ (~HasName(in[n], "model_name")
                         /\ HasName(in[n], "technique_name"))
                        => out[n].label = in[n].technique_name
                  /\ (~HasName(in[n], "model_name")
                         /\ ~HasName(in[n], "technique_name"))
                        => out[n].label = "Item " \o ToString(n)
                  /\ "response" \in DOMAIN in[n]
                        => out[n].response = in[n].response
                  /\ "response" \notin DOMAIN in[n] => out[n].response = ""

\* The example of the specification: [{model_name: gpt},
\* {technique_name: cot}, {}] gives gpt, cot, Item 3, each with "".
C7_Witness ==
    /\ call.op = "render_judge_prompt"
    /\ call.responses = << [model_name |-> "gpt"],
                           [technique_name |-> "cot"],
                           [k \in {} |-> ""] >>
    /\ lastPoml[1].context.responses_list =
          << [label |-> "gpt", response |-> ""],
             [label |-> "cot", response |-> ""],
             [label |-> "Item 3", response |-> ""] >>

FourTechniques ==
    [zero_shot |-> "Zero-Shot",
     few_shot |-> "Few-Shot",
     cot |-> "Chain of Thought",
     advanced |-> "Constrained-Guided Generation"]

IsFourTechniques(d) ==
    /\ Len(d) = 4
    /\ KeySet(d) = DOMAIN FourTechniques
    /\ \A k \in 1..Len(d) : d[k].label = FourTechniques[d[k].key]

\* C8: whatever calls were made before, the technique mapping is the four
\* entries zero_shot, few_shot, cot, advanced with their labels, and
\* get_answer_techniques returns exactly that mapping.
C8_TechniquesFixed ==
    /\ IsFourTechniques(techniques)
    /\ call.op = "get_answer_techniques" =>
          /\ result.kind = "returned"
          /\ IsFourTechniques(result.value)

\* get_answer_techniques was called after another renderer call.
C8_Witness ==
    /\ call.op = "get_answer_techniques"
    /\ nCalls >= 2
    /\ pomlCalls >= 1

(***************************************************************************)
(* Properties of extract_text_from_pdf (SpecExtract)                       *)
(***************************************************************************)
Marker(n) == "\n--- Page " \o ToString(n) \o " ---\n"

\* The segments of the pages 1..n that have text, in page order, each the
\* marker of the page followed by the page's text as extracted.
RECURSIVE RawSegments(_, _)
RawSegments(pages, n) ==
    IF n = 0 THEN ""
    ELSE RawSegments(pages, n - 1)
         \o (IF pages[n] # "" THEN Marker(n) \o pages[n] ELSE "")

\* The same, with the text of each page stripped of what UTF-8 cannot
\* encode.
RECURSIVE CleanSegments(_, _)
CleanSegments(pages, n) ==
    IF n = 0 THEN ""
    ELSE CleanSegments(pages, n - 1)
         \o (IF pages[n] # "" THEN Marker(n) \o Clean(pages[n]) ELSE "")

\* Number of page markers in a text.
RECURSIVE CountMarkers(_)
CountMarkers(s) ==
    IF Len(s) < Len("--- Page ") THEN 0
    ELSE (IF SubSeq(s, 1, Len("--- Page ")) = "--- Page " THEN 1 ELSE 0)
         + CountMarkers(Tail(s))

PagesWithText(pages) == {n \in 1..Len(pages) : pages[n] # ""}

\* C10 as stated: the result is the concatenation, in page order, of one
\* segment per page with text, each the marker of the page's 1-based
\* position followed by that page's text.
C10_MarkerThenPageText ==
    xDone =>
        /\ xText = RawSegments(xPages, Len(xPages))
        /\ CountMarkers(xText) = Cardinality(PagesWithText(xPages))
        /\ xText = "" <=> PagesWithText(xPages) = {}

\* C10, amended: the same, each segment being the marker followed by that
\* page's text without the characters UTF-8 cannot encode.
C10_MarkerThenCleanText ==
    xDone =>
        /\ xText = CleanSegments(xPages, Len(xPages))
        /\ CountMarkers(xText) = Cardinality(PagesWithText(xPages))
        /\ xText = "" <=> PagesWithText(xPages) = {}

\* A PDF whose first page has no text and whose later pages have, one of
\* them with a character that cannot be encoded.
C10_Witness ==
    /\ xDone
    /\ Len(xPages) >= 3
    /\ xPages[1] = ""
    /\ xPages[2] = "def f():"
    /\ xPages[3] = "caf" \o Surrogate \o "e"
    /\ xText = "\n--- Page 2 ---\ndef f():\n--- Page 3 ---\ncafe"

====
